---- MODULE Spec2Model ----
(***************************************************************************)
(* A model of the VNI transliteration engine of vi-rs                      *)
(* (src/src/engine/vni.rs).  Characters are Unicode scalar values (the     *)
(* value of a Rust char), the composition buffer is a sequence of them,    *)
(* and an Action is a record: Backspace(n) or Insert(ch).  Positions are   *)
(* 0-based as in the source; TLA+ sequences are 1-based, so position i of  *)
(* the buffer is buf[i + 1].                                               *)
(***************************************************************************)
EXTENDS Integers, Sequences, FiniteSets, TLC

VARIABLES
    buffer,     \* Vni.buffer: Vec<char>
    actions,    \* the Vec<Action> returned by the last handle_key call
    key,        \* the PhysicKey of the last handle_key call
    prev,       \* Vni.buffer as it was when the last handle_key call began
    panicked,   \* TRUE once a handle_key call has panicked instead of returning
    field       \* the host text field: the text of the current composition

vars == <<buffer, actions, key, prev, panicked, field>>

----------------------------------------------------------------------------
(* Bounds of the model *)

\* Longest composition buffer the model lets a key press build, under Spec
\* and SpecHost.
MaxLen == 3

\* The same under SpecDigits, whose keyboard has all nine trigger digits.
MaxShort == 2

----------------------------------------------------------------------------
(* Characters *)

\* The scalar values of the characters the engine names.
CP ==
    [ nul |-> 0, space |-> 32,
      a |-> 97, c |-> 99, d |-> 100, e |-> 101, g |-> 103, h |-> 104, i |-> 105,
      m |-> 109, n |-> 110, o |-> 111, p |-> 112, q |-> 113, t |-> 116,
      u |-> 117, y |-> 121,
      A |-> 65, D |-> 68, E |-> 69, I |-> 73, O |-> 79, U |-> 85, Y |-> 89,
      a_circ |-> 226, A_circ |-> 194, a_breve |-> 259, A_breve |-> 258,
      e_circ |-> 234, E_circ |-> 202, o_circ |-> 244, O_circ |-> 212,
      o_horn |-> 417, O_horn |-> 416, u_horn |-> 432, U_horn |-> 431,
      d_bar |-> 273, D_bar |-> 272 ]

TRIGGER_ACUTE == 49
TRIGGER_GRAVE == 50
TRIGGER_HOOK_ABOVE == 51
TRIGGER_TILDE == 52
TRIGGER_DOT == 53
TRIGGER_CIRCUMFLEX == 54
TRIGGER_HORN == 55
TRIGGER_BREVE == 56
TRIGGER_CROSSED_D == 57

\* char::to_ascii_uppercase, char::to_ascii_lowercase, char::is_ascii_uppercase
to_ascii_uppercase(ch) == IF ch \in 97..122 THEN ch - 32 ELSE ch

to_ascii_lowercase(ch) == IF ch \in 65..90 THEN ch + 32 ELSE ch

is_ascii_uppercase(ch) == ch \in 65..90

----------------------------------------------------------------------------
(* character_map: the five tone tables, [(char, char); 24] each *)

ACUTE_MAP ==
    << <<97, 225>>, <<259, 7855>>, <<226, 7845>>, <<101, 233>>, <<234, 7871>>, <<105, 237>>,
       <<111, 243>>, <<244, 7889>>, <<417, 7899>>, <<117, 250>>, <<432, 7913>>, <<121, 253>>,
       <<65, 193>>, <<258, 7854>>, <<194, 7844>>, <<69, 201>>, <<202, 7870>>, <<73, 205>>,
       <<79, 211>>, <<212, 7888>>, <<416, 7898>>, <<85, 218>>, <<431, 7912>>, <<89, 221>> >>

GRAVE_MAP ==
    << <<97, 224>>, <<259, 7857>>, <<226, 7847>>, <<101, 232>>, <<234, 7873>>, <<105, 236>>,
       <<111, 242>>, <<244, 7891>>, <<417, 7901>>, <<117, 249>>, <<432, 7915>>, <<121, 7923>>,
       <<65, 192>>, <<258, 7856>>, <<194, 7846>>, <<69, 200>>, <<202, 7872>>, <<73, 204>>,
       <<79, 210>>, <<212, 7890>>, <<416, 7900>>, <<85, 217>>, <<431, 7914>>, <<89, 7922>> >>

HOOK_ABOVE_MAP ==
    << <<97, 7843>>, <<259, 7859>>, <<226, 7849>>, <<101, 7867>>, <<234, 7875>>, <<105, 7881>>,
       <<111, 7887>>, <<244, 7893>>, <<417, 7903>>, <<117, 7911>>, <<432, 7917>>, <<121, 7927>>,
       <<65, 7842>>, <<258, 7858>>, <<194, 7848>>, <<69, 7866>>, <<202, 7874>>, <<73, 7880>>,
       <<79, 7886>>, <<212, 7892>>, <<416, 7902>>, <<85, 7910>>, <<431, 7916>>, <<89, 7926>> >>

TILDE_MAP ==
    << <<97, 227>>, <<259, 7861>>, <<226, 7851>>, <<101, 7869>>, <<234, 7877>>, <<105, 297>>,
       <<111, 245>>, <<244, 7895>>, <<417, 7905>>, <<117, 361>>, <<432, 7919>>, <<121, 7929>>,
       <<65, 195>>, <<258, 7860>>, <<194, 7850>>, <<69, 7868>>, <<202, 7876>>, <<73, 296>>,
       <<79, 213>>, <<212, 7894>>, <<416, 7904>>, <<85, 360>>, <<431, 7918>>, <<89, 7928>> >>

DOT_MAP ==
    << <<97, 7841>>, <<259, 7863>>, <<226, 7853>>, <<101, 7865>>, <<234, 7879>>, <<105, 7883>>,
       <<111, 7885>>, <<244, 7897>>, <<417, 7907>>, <<117, 7909>>, <<432, 7921>>, <<121, 7925>>,
       <<65, 7840>>, <<258, 7862>>, <<194, 7852>>, <<69, 7864>>, <<202, 7878>>, <<73, 7882>>,
       <<79, 7884>>, <<212, 7896>>, <<416, 7906>>, <<85, 7908>>, <<431, 7920>>, <<89, 7924>> >>

ToneMaps == {ACUTE_MAP, GRAVE_MAP, HOOK_ABOVE_MAP, TILDE_MAP, DOT_MAP}

\* HashMap::<char, char>::from_iter(map): the keys, and the value of a key
\* (a later entry of the array replaces an earlier one with the same key).
MapKeys(map) == {map[j][1] : j \in 1..Len(map)}

MapGet(map, ch) ==
    LET last == CHOOSE j \in 1..Len(map) :
                    /\ map[j][1] = ch
                    /\ \A l \in (j + 1)..Len(map) : map[l][1] # ch
    IN  map[last][2]

\* The entries of the five tables: <<vowel, the vowel with a tone mark>>.
TonePairs == UNION {{map[j] : j \in 1..Len(map)} : map \in ToneMaps}

\* The tone-marked characters: the values of the five tables.
TonedChars == {pair[2] : pair \in TonePairs}

\* util::remove_accents: the character without its tone mark; a circumflex,
\* breve or horn stays.
remove_accents(ch) ==
    IF ch \in TonedChars
    THEN (CHOOSE pair \in TonePairs : pair[2] = ch)[1]
    ELSE ch

\* The shape-marked letters and the plain letter under each.
ShapeBase ==
    (CP.a_circ :> CP.a) @@ (CP.a_breve :> CP.a) @@ (CP.e_circ :> CP.e) @@
    (CP.o_circ :> CP.o) @@ (CP.o_horn :> CP.o) @@ (CP.u_horn :> CP.u) @@
    (CP.d_bar :> CP.d) @@
    (CP.A_circ :> CP.A) @@ (CP.A_breve :> CP.A) @@ (CP.E_circ :> CP.E) @@
    (CP.O_circ :> CP.O) @@ (CP.O_horn :> CP.O) @@ (CP.U_horn :> CP.U) @@
    (CP.D_bar :> CP.D)

\* util::clean_char: the character without tone mark and without shape mark;
\* its case stays.
StripShape(toneless) ==
    IF toneless \in DOMAIN ShapeBase THEN ShapeBase[toneless] ELSE toneless

clean_char(ch) == StripShape(remove_accents(ch))

----------------------------------------------------------------------------
(* Action (super::Action) *)

Backspace(n) == [op |-> "Backspace", n |-> n, ch |-> 0]

Insert(ch) == [op |-> "Insert", n |-> 0, ch |-> ch]

----------------------------------------------------------------------------
(* Vni *)

Min(x, y) == IF x <= y THEN x ELSE y

\* replace_char_at with the characters after index not typed again.
replace_char_at_NoSuffix(buf, index, ch, is_first_edit) ==
    <<Backspace((Len(buf) - index) + (IF is_first_edit THEN 1 ELSE 0)),
      Insert(ch)>>

\* Vni::replace_char_at(&mut self, index, ch, is_first_edit) on buffer buf;
\* index < Len(buf) at every call, so buffer_len - index does not underflow.
replace_char_at(buf, index, ch, is_first_edit) ==
    LET buffer_len == Len(buf)
        backspace_amount == (buffer_len - index) + (IF is_first_edit THEN 1 ELSE 0)
        \* .iter().skip(index + 1).take(backspace_amount)
        deleted_chars ==
            SubSeq(buf, index + 2, Min(buffer_len, index + 1 + backspace_amount))
    IN  <<Backspace(backspace_amount), Insert(ch)>>
            \o [j \in 1..Len(deleted_chars) |-> Insert(deleted_chars[j])]

\* DiacriticMatch { ch, pair_with, replace_with: (lowercase, uppercase) }
DiacriticMatch(ch, pair_with, lower, upper) ==
    [ch |-> ch, pair_with |-> pair_with, replace_with |-> <<lower, upper>>]

\* Paired with the follower never looked at.
Paired_Always(diacritic_match, next_ch_lower, i, buffer_len) == TRUE

\* Paired with the end of the buffer pairing with nothing.
Paired_NoEnd(diacritic_match, next_ch_lower, i, buffer_len) ==
    next_ch_lower \in diacritic_match.pair_with

\* add_diacritic, lines 84-85: the follower is one the rule pairs with, or
\* position i is the last of the buffer.
Paired(diacritic_match, next_ch_lower, i, buffer_len) ==
    \/ next_ch_lower \in diacritic_match.pair_with
    \/ i + 1 = buffer_len

\* DiacriticStep with is_first_match never cleared.
DiacriticStep_AlwaysFirst(st, i, ch, next_ch, clean_ch, diacritic_match) ==
    IF /\ diacritic_match.ch = to_ascii_lowercase(clean_ch)
       /\ Paired(diacritic_match, clean_char(to_ascii_lowercase(next_ch)),
                 i, Len(st.buffer))
    THEN [ buffer |-> [st.buffer EXCEPT ![i + 1] =
                          IF is_ascii_uppercase(ch)
                          THEN diacritic_match.replace_with[2]
                          ELSE diacritic_match.replace_with[1]],
           steps |-> st.steps \o
               replace_char_at(st.buffer, i,
                               IF is_ascii_uppercase(ch)
                               THEN diacritic_match.replace_with[2]
                               ELSE diacritic_match.replace_with[1],
                               TRUE),
           is_first_match |-> TRUE ]
    ELSE st

\* The body of add_diacritic's inner loop for one rule: st is the state of
\* the call (buffer, steps, is_first_match); ch, next_ch and clean_ch are
\* the values read at position i before the inner loop began.
DiacriticStep(st, i, ch, next_ch, clean_ch, diacritic_match) ==
    IF diacritic_match.ch = to_ascii_lowercase(clean_ch)
    THEN LET next_ch_lower == clean_char(to_ascii_lowercase(next_ch))
         IN  IF Paired(diacritic_match, next_ch_lower, i, Len(st.buffer))
             THEN LET replace_char ==
                          IF is_ascii_uppercase(ch)
                          THEN diacritic_match.replace_with[2]
                          ELSE diacritic_match.replace_with[1]
                  IN  [ buffer |-> [st.buffer EXCEPT ![i + 1] = replace_char],
                        steps |-> st.steps \o
                            replace_char_at(st.buffer, i, replace_char,
                                            st.is_first_match),
                        is_first_match |-> FALSE ]
             ELSE st
    ELSE st

\* for diacritic_match in &matches, from rule j on
RECURSIVE DiacriticRules(_, _, _, _, _, _, _)
DiacriticRules(st, i, ch, next_ch, clean_ch, matches, j) ==
    IF j > Len(matches)
    THEN st
    ELSE DiacriticRules(
             DiacriticStep(st, i, ch, next_ch, clean_ch, matches[j]),
             i, ch, next_ch, clean_ch, matches, j + 1)

\* for i in 0..buffer_len, from position i on
RECURSIVE DiacriticScan(_, _, _)
DiacriticScan(st, i, matches) ==
    IF i >= Len(st.buffer)
    THEN st
    ELSE LET ch == st.buffer[i + 1]
             next_ch == IF i + 1 = Len(st.buffer)
                        THEN st.buffer[i + 1]
                        ELSE st.buffer[i + 2]
             clean_ch == clean_char(ch)
         IN  DiacriticScan(
                 DiacriticRules(st, i, ch, next_ch, clean_ch, matches, 1),
                 i + 1, matches)

\* Vni::add_diacritic(&mut self, matches): the state of the call when the
\* loop ends; .buffer is the buffer after the call, .steps what it returns.
add_diacritic(buf, matches) ==
    DiacriticScan([buffer |-> buf, steps |-> <<>>, is_first_match |-> TRUE],
                  0, matches)

\* Option<(char, usize)>
None == [some |-> FALSE, ch |-> 0, index |-> 0]

Some(ch, index) == [some |-> TRUE, ch |-> ch, index |-> index]

diacritic_chars ==
    { CP.e_circ, CP.a_circ, CP.o_circ, CP.a_breve, CP.u_horn,
      CP.E_circ, CP.A_circ, CP.O_circ, CP.A_breve, CP.U_horn }

pair_with_o_chars == {CP.a, CP.e, CP.o, CP.y, CP.A, CP.E, CP.O, CP.Y}

vowel_positions ==
    (CP.a :> 5) @@ (CP.e :> 4) @@ (CP.i :> 3) @@ (CP.o :> 2) @@ (CP.u :> 1) @@
    (CP.y :> 0) @@
    (CP.A :> 5) @@ (CP.E :> 4) @@ (CP.I :> 3) @@ (CP.O :> 2) @@ (CP.U :> 1) @@
    (CP.Y :> 0)

\* IsCluster with no cluster ever recognised.
IsCluster_Never(buf, idx, ch_no_accent) == FALSE

\* get_vowel_for_accent, lines 143-145: position idx holds an 'o' and the
\* next position one of a, e, o, y (either case).
IsCluster(buf, idx, ch_no_accent) ==
    /\ ch_no_accent = CP.o
    /\ idx + 1 < Len(buf)
    /\ buf[idx + 2] \in pair_with_o_chars

\* Outranks with an equal rank also replacing the running choice.
Outranks_OrEqual(position, max_vowel_position) ==
    position >= max_vowel_position

\* get_vowel_for_accent, line 156: only a strictly higher rank replaces the
\* running choice.
Outranks(position, max_vowel_position) == position > max_vowel_position

\* get_vowel_for_accent: the loop from position idx on, and what follows it.
\* VowelAt is the loop body at position idx, ch_no_accent being
\* util::remove_accents(buf[idx]).
RECURSIVE VowelScan(_, _, _, _, _)
RECURSIVE VowelAt(_, _, _, _, _, _)
VowelScan(buf, idx, result_vowel, max_vowel_position, max_vowel_index) ==
    IF idx >= Len(buf)
    THEN IF result_vowel.some
         THEN result_vowel
         ELSE IF max_vowel_position >= 0
              THEN Some(buf[max_vowel_index + 1], max_vowel_index)
              ELSE None
    ELSE VowelAt(buf, idx, remove_accents(buf[idx + 1]),
                 result_vowel, max_vowel_position, max_vowel_index)

VowelAt(buf, idx, ch_no_accent, result_vowel, max_vowel_position, max_vowel_index) ==
    IF ch_no_accent = CP.o_horn \/ ch_no_accent = CP.O_horn
    THEN Some(ch_no_accent, idx)
    ELSE IF ch_no_accent \in diacritic_chars
    THEN VowelScan(buf, idx + 1, Some(ch_no_accent, idx),
                   max_vowel_position, max_vowel_index)
    ELSE IF IsCluster(buf, idx, ch_no_accent)
    THEN Some(buf[idx + 2], idx + 1)
    ELSE IF ch_no_accent = CP.g /\ idx + 2 < Len(buf)
    THEN IF buf[idx + 2] = CP.i
         THEN Some(buf[idx + 3], idx + 2)
         ELSE VowelScan(buf, idx + 1, result_vowel,
                        max_vowel_position, max_vowel_index)
    ELSE IF /\ ch_no_accent \in DOMAIN vowel_positions
            /\ Outranks(vowel_positions[ch_no_accent], max_vowel_position)
    THEN VowelScan(buf, idx + 1, result_vowel,
                   vowel_positions[ch_no_accent], idx)
    ELSE VowelScan(buf, idx + 1, result_vowel,
                   max_vowel_position, max_vowel_index)

\* Vni::get_vowel_for_accent(&self)
get_vowel_for_accent(buf) == VowelScan(buf, 0, None, -1, 0)

\* add_accent once the vowel is selected: the steps it returns, or a panic
\* when the selected character is no key of the table (HashMap's Index
\* panics).  The buffer is not written.
AccentOn(buf, map, vowel) ==
    IF vowel.some
    THEN IF vowel.ch \in MapKeys(map)
         THEN [ buffer |-> buf,
                steps |-> replace_char_at(buf, vowel.index,
                                          MapGet(map, vowel.ch), TRUE),
                panic |-> FALSE ]
         ELSE [buffer |-> buf, steps |-> <<>>, panic |-> TRUE]
    ELSE [buffer |-> buf, steps |-> <<>>, panic |-> FALSE]

\* Vni::add_accent(&mut self, map)
add_accent(buf, map) == AccentOn(buf, map, get_vowel_for_accent(buf))

CircumflexMatches ==
    << DiacriticMatch(CP.a, {CP.u, CP.n, CP.m, CP.p, CP.t, CP.c, CP.y},
                      CP.a_circ, CP.A_circ),
       DiacriticMatch(CP.e, {CP.u, CP.n, CP.m, CP.p, CP.t, CP.c, CP.y},
                      CP.e_circ, CP.E_circ),
       DiacriticMatch(CP.o, {CP.i, CP.n, CP.m, CP.p, CP.t, CP.c, CP.y},
                      CP.o_circ, CP.O_circ) >>

HornMatches ==
    << DiacriticMatch(CP.u, {CP.o, CP.i, CP.n, CP.m, CP.a, CP.p, CP.t, CP.c},
                      CP.u_horn, CP.U_horn),
       DiacriticMatch(CP.o, {CP.i, CP.n, CP.m, CP.p, CP.t, CP.c, CP.y},
                      CP.o_horn, CP.O_horn) >>

BreveMatches ==
    << DiacriticMatch(CP.a, {CP.p, CP.n, CP.m, CP.t, CP.c},
                      CP.a_breve, CP.A_breve) >>

CrossedDMatches ==
    << DiacriticMatch(CP.d, {CP.a, CP.c, CP.e, CP.i, CP.m, CP.n, CP.o, CP.p,
                             CP.t, CP.u, CP.y},
                      CP.d_bar, CP.D_bar) >>

DiacriticTriggers ==
    {TRIGGER_CIRCUMFLEX, TRIGGER_HORN, TRIGGER_BREVE, TRIGGER_CROSSED_D}

ToneTriggers ==
    {TRIGGER_ACUTE, TRIGGER_GRAVE, TRIGGER_HOOK_ABOVE, TRIGGER_TILDE, TRIGGER_DOT}

MatchesOf(ch) ==
    CASE ch = TRIGGER_CIRCUMFLEX -> CircumflexMatches
      [] ch = TRIGGER_HORN -> HornMatches
      [] ch = TRIGGER_BREVE -> BreveMatches
      [] ch = TRIGGER_CROSSED_D -> CrossedDMatches

ToneMapOf(ch) ==
    CASE ch = TRIGGER_ACUTE -> ACUTE_MAP
      [] ch = TRIGGER_GRAVE -> GRAVE_MAP
      [] ch = TRIGGER_HOOK_ABOVE -> HOOK_ABOVE_MAP
      [] ch = TRIGGER_TILDE -> TILDE_MAP
      [] ch = TRIGGER_DOT -> DOT_MAP

\* A call that returned: the buffer it left and the steps it returned.
Returned(st) == [buffer |-> st.buffer, steps |-> st.steps, panic |-> FALSE]

\* Vni::handle_normal_char(&mut self, ch): the buffer after the call, the
\* steps it returns, and whether it panicked instead.
handle_normal_char(buf, ch) ==
    IF ch \in DiacriticTriggers
    THEN Returned(add_diacritic(buf, MatchesOf(ch)))
    ELSE IF ch \in ToneTriggers
    THEN add_accent(buf, ToneMapOf(ch))
    ELSE [buffer |-> buf, steps |-> <<>>, panic |-> FALSE]

----------------------------------------------------------------------------
(* PhysicKey (super::PhysicKey) *)

\* A key event: what the key is, the character its conversion to char
\* gives, whether a caps modifier is set (cap is Some), press or release.
PhysicKey(kind, ch, cap, state) ==
    [kind |-> kind, ch |-> ch, cap |-> cap, state |-> state]

is_arrow(k) == k.kind = "arrow"

is_whitespace(k) == k.kind = "whitespace"

is_backspace(k) == k.kind = "backspace"

\* Pop with the removal left out.
Pop_Nothing(buf) == buf

\* Vec::pop
Pop(buf) == IF buf = <<>> THEN buf ELSE SubSeq(buf, 1, Len(buf) - 1)

\* NormalizedChar with the caps modifier ignored.
NormalizedChar_IgnoresCap(k) == k.ch

\* handle_key, lines 248-251: the key's character, upper-cased when the
\* caps modifier is set.
NormalizedChar(k) == IF k.cap THEN to_ascii_uppercase(k.ch) ELSE k.ch

\* PushIfEmpty with the character never pushed.
PushIfEmpty_NeverPush(buf, ch, r) ==
    IF r.panic
    THEN [buffer |-> buf, actions |-> <<>>, panic |-> TRUE]
    ELSE [buffer |-> r.buffer, actions |-> r.steps, panic |-> FALSE]

\* PushIfEmpty with the character pushed whatever was returned.
PushIfEmpty_AlwaysPush(buf, ch, r) ==
    IF r.panic
    THEN [buffer |-> buf, actions |-> <<>>, panic |-> TRUE]
    ELSE [ buffer |-> IF ch # CP.nul THEN Append(r.buffer, ch) ELSE r.buffer,
           actions |-> r.steps, panic |-> FALSE ]

\* handle_key, lines 252-258, once handle_normal_char has ended with r: a
\* panic ends the call; else ch is pushed when no action was returned.
PushIfEmpty(buf, ch, r) ==
    IF r.panic
    THEN [buffer |-> buf, actions |-> <<>>, panic |-> TRUE]
    ELSE [ buffer |-> IF ch # CP.nul /\ r.steps = <<>>
                      THEN Append(r.buffer, ch)
                      ELSE r.buffer,
           actions |-> r.steps, panic |-> FALSE ]

\* clear_buffer with the arrow keys left out.
clear_buffer_WhitespaceOnly(k) == is_whitespace(k)

\* handle_key, lines 242-244: whether the press clears the buffer.
clear_buffer(k) == is_arrow(k) \/ is_whitespace(k)

\* Vni::handle_key(&mut self, key) on buffer buf: the buffer after the call,
\* the actions it returns, and whether it panicked instead of returning.
handle_key(buf, k) ==
    LET ch0 == k.ch
    IN  IF k.state = "KeyPress"
        THEN IF clear_buffer(k)
             THEN [buffer |-> <<>>, actions |-> <<>>, panic |-> FALSE]
             ELSE IF is_backspace(k)
             THEN [ buffer |-> IF ch0 # CP.nul
                               THEN Append(Pop(buf), ch0)
                               ELSE Pop(buf),
                    actions |-> <<>>, panic |-> FALSE ]
             ELSE PushIfEmpty(buf, NormalizedChar(k),
                              handle_normal_char(buf, NormalizedChar(k)))
        ELSE [buffer |-> buf, actions |-> <<>>, panic |-> FALSE]

----------------------------------------------------------------------------
(* The host text field *)

\* One Action applied at the end of the text: Backspace(n) deletes the n
\* characters before the cursor, Insert(ch) types ch.
ApplyAction(text, act) ==
    IF act.op = "Backspace"
    THEN SubSeq(text, 1, IF act.n >= Len(text) THEN 0 ELSE Len(text) - act.n)
    ELSE Append(text, act.ch)

RECURSIVE ApplyActions(_, _)
ApplyActions(text, acts) ==
    IF acts = <<>>
    THEN text
    ELSE ApplyActions(ApplyAction(text, Head(acts)), Tail(acts))

\* The character a printable key press types into the field.
TypedChar(k) == NormalizedChar(k)

\* The text of the current composition in the host field after key event k
\* has been handled with result res: the host passes the key itself on and
\* then applies the returned actions in order.
HostField(text, k, res) ==
    IF res.panic \/ k.state # "KeyPress"
    THEN text
    ELSE IF is_arrow(k) \/ is_whitespace(k)
    THEN <<>>
    ELSE IF is_backspace(k)
    THEN Pop(text)
    ELSE IF k.ch = CP.nul
    THEN text
    ELSE ApplyActions(Append(text, TypedChar(k)), res.actions)

----------------------------------------------------------------------------
(* Key events of the model *)

\* Presses of keys that produce a character: every letter plain, the
\* letters of capLetters also with the caps modifier, and the digits.
CharKeys(letters, capLetters, digits) ==
    {PhysicKey("char", ch, FALSE, "KeyPress") : ch \in letters \cup digits}
        \cup {PhysicKey("char", ch, TRUE, "KeyPress") : ch \in capLetters}

\* The keyboard of Spec.
Letters == {CP.a, CP.o, CP.u, CP.g, CP.i, CP.q, CP.h}

CapLetters == {CP.o}

Digits == {TRIGGER_ACUTE, TRIGGER_CIRCUMFLEX, TRIGGER_HORN}

PrintableKeys == CharKeys(Letters, CapLetters, Digits)

\* The keyboard of SpecHost.
HostLetters == {CP.a, CP.o, CP.u, CP.q}

HostDigits == {TRIGGER_ACUTE, TRIGGER_GRAVE, TRIGGER_HORN}

HostCapLetters == {CP.o}

HostPrintableKeys == CharKeys(HostLetters, HostCapLetters, HostDigits)

\* The keyboard of SpecDigits: every trigger digit, few letters.
DigitLetters == {CP.a, CP.o, CP.d, CP.q}

DigitCapLetters == {CP.a, CP.d}

DigitPrintableKeys ==
    CharKeys(DigitLetters, DigitCapLetters, DiacriticTriggers \cup ToneTriggers)

\* A key that produces no character (a pure modifier).
ModifierKeys == {PhysicKey("char", CP.nul, FALSE, "KeyPress")}

ResetKeys ==
    { PhysicKey("whitespace", CP.space, FALSE, "KeyPress"),
      PhysicKey("whitespace", CP.space, TRUE, "KeyPress"),
      PhysicKey("arrow", CP.nul, FALSE, "KeyPress") }

\* The backspace key produces no character.
BackspaceKeys == {PhysicKey("backspace", CP.nul, FALSE, "KeyPress")}

ReleaseKeys ==
    { PhysicKey("char", CP.a, FALSE, "KeyRelease"),
      PhysicKey("char", TRIGGER_ACUTE, FALSE, "KeyRelease") }

NoKey == PhysicKey("none", CP.nul, FALSE, "none")

----------------------------------------------------------------------------
(* The state machine *)

Init ==
    /\ buffer = <<>>
    /\ actions = <<>>
    /\ key = NoKey
    /\ prev = <<>>
    /\ panicked = FALSE
    /\ field = <<>>

\* One call of handle_key with key event k.  A call that panics returns
\* nothing and no later call is made.
Call(k, res, text, bound) ==
    /\ ~panicked
    /\ Len(res.buffer) <= bound
    /\ buffer' = res.buffer
    /\ actions' = res.actions
    /\ panicked' = res.panic
    /\ key' = k
    /\ prev' = buffer
    /\ field' = text

\* The engine alone (the host field is left out): a press of a key that
\* produces a character, or of a pure modifier.
PressPrintable ==
    \E k \in PrintableKeys \cup ModifierKeys :
        Call(k, handle_key(buffer, k), field, MaxLen)

PressBackspace ==
    \E k \in BackspaceKeys : Call(k, handle_key(buffer, k), field, MaxLen)

PressReset ==
    \E k \in ResetKeys : Call(k, handle_key(buffer, k), field, MaxLen)

Release ==
    \E k \in ReleaseKeys : Call(k, handle_key(buffer, k), field, MaxLen)

Next == PressPrintable \/ PressBackspace \/ PressReset \/ Release

Spec == Init /\ [][Next]_vars

\* The engine and the host field, which receives each key and then the
\* actions handle_key returned for it.
HostPressPrintable ==
    \E k \in HostPrintableKeys \cup ModifierKeys :
        Call(k, handle_key(buffer, k),
             HostField(field, k, handle_key(buffer, k)), MaxLen)

HostPressBackspace ==
    \E k \in BackspaceKeys :
        Call(k, handle_key(buffer, k),
             HostField(field, k, handle_key(buffer, k)), MaxLen)

HostPressReset ==
    \E k \in ResetKeys :
        Call(k, handle_key(buffer, k),
             HostField(field, k, handle_key(buffer, k)), MaxLen)

HostRelease ==
    \E k \in ReleaseKeys :
        Call(k, handle_key(buffer, k),
             HostField(field, k, handle_key(buffer, k)), MaxLen)

NextHost ==
    HostPressPrintable \/ HostPressBackspace \/ HostPressReset \/ HostRelease

SpecHost == Init /\ [][NextHost]_vars

\* The engine alone, on the keyboard with every trigger digit.
DigitsPressPrintable ==
    \E k \in DigitPrintableKeys \cup ModifierKeys :
        Call(k, handle_key(buffer, k), field, MaxShort)

DigitsPressBackspace ==
    \E k \in BackspaceKeys : Call(k, handle_key(buffer, k), field, MaxShort)

DigitsPressReset ==
    \E k \in ResetKeys : Call(k, handle_key(buffer, k), field, MaxShort)

DigitsRelease ==
    \E k \in ReleaseKeys : Call(k, handle_key(buffer, k), field, MaxShort)

NextDigits ==
    DigitsPressPrintable \/ DigitsPressBackspace \/ DigitsPressReset
        \/ DigitsRelease

SpecDigits == Init /\ [][NextDigits]_vars

----------------------------------------------------------------------------
(* What the last handle_key call was *)

\* The last call returned (it did not panic) and was a key press.
Pressed == ~panicked /\ key.state = "KeyPress"

\* The last call was the press of a key that produces a character and is no
\* whitespace, arrow or backspace key.
PrintablePressed == Pressed /\ key.kind = "char" /\ key.ch # CP.nul

\* The character of the last key with the caps modifier applied.
PressedChar == IF key.cap THEN key.ch - (IF key.ch \in 97..122 THEN 32 ELSE 0) ELSE key.ch

TonePressed == PrintablePressed /\ PressedChar \in ToneTriggers

DiacriticPressed == PrintablePressed /\ PressedChar \in DiacriticTriggers

\* The number of tone-marked characters of a text.
ToneCount(text) == Cardinality({j \in 1..Len(text) : text[j] \in TonedChars})

\* The positions (0-based) of the characters of buf that are a horned o
\* once the tone mark is taken off.
HornOPositions(buf) ==
    {j \in 0..(Len(buf) - 1) :
        remove_accents(buf[j + 1]) \in {CP.o_horn, CP.O_horn}}

SetMin(S) == CHOOSE x \in S : \A y \in S : x <= y

----------------------------------------------------------------------------
(* Claims *)

\* C1 (as claimed): round trip.  Whenever a press returns a non-empty
\* operation list, applying the operations to the buffer as it was before
\* the press followed by the typed trigger character gives the buffer as it
\* is after the press; and after every key event the host field holds
\* exactly the buffer.
C1_RoundTrip ==
    /\ (PrintablePressed /\ actions # <<>>)
           => ApplyActions(Append(prev, PressedChar), actions) = buffer
    /\ ~panicked => field = buffer

\* C2 (as claimed): handle_key is total; no call panics.
C2_Total == ~panicked

\* C3 (as claimed): when a tone trigger is pressed and the vowel selector
\* returns position i, the buffer afterwards holds the toned replacement at
\* i, every other position is unchanged and the length is unchanged.
C3_ToneWritten ==
    (TonePressed /\ get_vowel_for_accent(prev).some)
        => buffer =
               [prev EXCEPT ![get_vowel_for_accent(prev).index + 1] =
                   MapGet(ToneMapOf(PressedChar), get_vowel_for_accent(prev).ch)]

\* The press of the circumflex trigger on the buffer a, q.
C4_Case ==
    /\ Pressed
    /\ key = PhysicKey("char", TRIGGER_CIRCUMFLEX, FALSE, "KeyPress")
    /\ prev = <<CP.a, CP.q>>

\* C4 (as claimed): a, q, then the circumflex trigger returns no operations
\* and leaves the buffer equal to a, q.
C4_Original == C4_Case => (actions = <<>> /\ buffer = <<CP.a, CP.q>>)

\* C4 (amended): a, q, then the circumflex trigger returns no operations,
\* nothing of a, q is rewritten, and the trigger digit is appended as a
\* literal: the buffer is a, q, '6'.
C4_PairingRejection ==
    C4_Case => (actions = <<>> /\ buffer = <<CP.a, CP.q, TRIGGER_CIRCUMFLEX>>)

C4_Witness == C4_Case /\ buffer = <<CP.a, CP.q, TRIGGER_CIRCUMFLEX>>

\* C5: pass-through append.  When a printable key is pressed and the trigger
\* dispatch on its case-normalized character yields no operations, the call
\* returns no operations and the buffer is the old buffer followed by that
\* character.
C5_PassThrough ==
    (PrintablePressed /\ handle_normal_char(prev, PressedChar).steps = <<>>)
        => (actions = <<>> /\ buffer = Append(prev, PressedChar))

\* A trigger digit that matched nothing was appended to a buffer that
\* holds a vowel.
C5_Witness ==
    /\ PrintablePressed
    /\ PressedChar \in DiacriticTriggers \cup ToneTriggers
    /\ prev = <<CP.o>>
    /\ actions = <<>>
    /\ buffer = Append(prev, PressedChar)

\* C6: buffer reset.  After the press of a whitespace or arrow key the
\* buffer is empty and no operations are returned, whatever the buffer, the
\* key's character and its caps state were.
C6_Reset ==
    (Pressed /\ key.kind \in {"whitespace", "arrow"})
        => (buffer = <<>> /\ actions = <<>>)

\* An arrow key cleared a buffer of two or more characters.
C6_Witness ==
    /\ Pressed
    /\ key.kind = "arrow"
    /\ Len(prev) >= 2
    /\ buffer = <<>>

\* C7: backspace.  After the press of the backspace key no operations are
\* returned and the buffer is the old buffer without its last character
\* (empty when the old buffer was empty); nothing is appended.
C7_Backspace ==
    (Pressed /\ key.kind = "backspace")
        => /\ actions = <<>>
           /\ buffer = [j \in 1..(IF prev = <<>> THEN 0 ELSE Len(prev) - 1)
                           |-> prev[j]]

\* Backspace took the last of three characters away.
C7_Witness ==
    /\ Pressed
    /\ key.kind = "backspace"
    /\ Len(prev) = 3
    /\ Len(buffer) = 2

\* C8: consumed trigger.  Whenever the press of a trigger digit returns a
\* non-empty operation list, the buffer keeps its length (the digit is not
\* appended) and every position keeps its base letter (nothing is removed
\* or reordered).
C8_Consumed ==
    (PrintablePressed
        /\ PressedChar \in DiacriticTriggers \cup ToneTriggers
        /\ actions # <<>>)
        => /\ Len(buffer) = Len(prev)
           /\ \A j \in 1..Len(prev) :
                  to_ascii_lowercase(clean_char(buffer[j]))
                      = to_ascii_lowercase(clean_char(prev[j]))

\* A diacritic trigger rewrote a buffer of three characters.
C8_Witness ==
    /\ DiacriticPressed
    /\ actions # <<>>
    /\ Len(prev) = 3
    /\ buffer # prev

\* C9 (as claimed): one tone per word.  After every key event the composed
\* text in the host field holds at most one tone-marked vowel.
C9_OneTone == ToneCount(field) <= 1

\* C10 (as claimed): horn-o precedence.  Whenever the buffer holds a horned
\* o (either case), the vowel selector returns the position of the first
\* one, whatever else the buffer holds.
C10_HornOFirst ==
    HornOPositions(buffer) # {}
        => /\ get_vowel_for_accent(buffer).some
           /\ get_vowel_for_accent(buffer).index = SetMin(HornOPositions(buffer))

----------------------------------------------------------------------------
(* What a press of a trigger digit is expected to return *)

\* The last call was made for the press of a tone trigger (it may have
\* panicked instead of returning).
ToneAttempt ==
    /\ key.state = "KeyPress"
    /\ key.kind = "char"
    /\ PressedChar \in ToneTriggers

\* The last call was made for the press of a diacritic trigger.
DiacriticAttempt ==
    /\ key.state = "KeyPress"
    /\ key.kind = "char"
    /\ PressedChar \in DiacriticTriggers

\* The operations that rewrite position index of buf to new_char: one
\* Backspace of the characters from index on (one more on a first edit, for
\* the trigger character), Insert of new_char, and Insert of every character
\* after index, in order.
EditShape(buf, index, new_char, is_first_edit) ==
    <<Backspace(Len(buf) - index + (IF is_first_edit THEN 1 ELSE 0)),
      Insert(new_char)>>
        \o [j \in 1..(Len(buf) - index - 1) |-> Insert(buf[index + 1 + j])]

\* The positions of buf that hold a plain lowercase 'o' immediately followed
\* by one of a, e, o, y of either case.
ClusterOPositions(buf) ==
    {j \in 0..(Len(buf) - 2) :
        /\ buf[j + 1] = CP.o
        /\ buf[j + 2] \in {CP.a, CP.e, CP.o, CP.y, CP.A, CP.E, CP.O, CP.Y}}

\* The positions of buf that hold a 'g' followed by 'i' and a third
\* character.
GiPrefixPositions(buf) ==
    {j \in 0..(Len(buf) - 3) : buf[j + 1] = CP.g /\ buf[j + 2] = CP.i}

\* buf holds a cluster, no horned o, and no 'g','i' prefix before the first
\* cluster.
ClusterCase(buf) ==
    /\ ClusterOPositions(buf) # {}
    /\ HornOPositions(buf) = {}
    /\ \A j \in GiPrefixPositions(buf) : j > SetMin(ClusterOPositions(buf))

\* C11: cluster rule.  When a tone trigger is pressed on a buffer that holds
\* no horned o and no 'g','i' prefix before its first 'o' + a/e/o/y cluster,
\* the call returns, the vowel selector gives the position after the first
\* such 'o', and the operations put the toned form of the character at that
\* position there (for h, o, a and the acute trigger: Backspace(2),
\* Insert(a-acute)).
C11_ClusterRule ==
    (ToneAttempt /\ ClusterCase(prev))
        => /\ ~panicked
           /\ get_vowel_for_accent(prev).index
                  = SetMin(ClusterOPositions(prev)) + 1
           /\ actions =
                  EditShape(prev, SetMin(ClusterOPositions(prev)) + 1,
                            MapGet(ToneMapOf(PressedChar),
                                   prev[SetMin(ClusterOPositions(prev)) + 2]),
                            TRUE)

\* The acute trigger was pressed on h, o, a and returned Backspace(2),
\* Insert(a-acute).
C11_Witness ==
    /\ ToneAttempt
    /\ PressedChar = TRIGGER_ACUTE
    /\ prev = <<CP.h, CP.o, CP.a>>
    /\ actions = <<Backspace(2), Insert(225)>>

\* The rules of trigger digit trig whose base letter is the last character
\* of buf without its tone and shape marks, case-folded.
LastRules(buf, trig) ==
    {MatchesOf(trig)[j] : j \in
        {l \in 1..Len(MatchesOf(trig)) :
            MatchesOf(trig)[l].ch
                = to_ascii_lowercase(clean_char(buf[Len(buf)]))}}

\* C12: end-of-buffer pairing.  When a diacritic trigger is pressed on a
\* buffer whose last character has the base letter of one of the trigger's
\* rules, the last position is rewritten to a replacement of that rule (the
\* form of the character's case when it is a plain letter) whatever the
\* characters are, the operations end with the rewrite of the last position,
\* and the digit is not appended; a, then '6', gives the buffer a-circumflex
\* and exactly Backspace(2), Insert(a-circumflex).
C12_EndOfBuffer ==
    /\ (DiacriticAttempt /\ prev # <<>> /\ LastRules(prev, PressedChar) # {})
           => /\ ~panicked
              /\ Len(buffer) = Len(prev)
              /\ Len(actions) >= 2
              /\ \E rule \in LastRules(prev, PressedChar) :
                     /\ buffer[Len(buffer)] \in
                            {rule.replace_with[1], rule.replace_with[2]}
                     /\ prev[Len(prev)] \in 97..122
                            => buffer[Len(buffer)] = rule.replace_with[1]
                     /\ prev[Len(prev)] \in 65..90
                            => buffer[Len(buffer)] = rule.replace_with[2]
              /\ SubSeq(actions, Len(actions) - 1, Len(actions))
                     = <<Backspace(IF Len(actions) = 2 THEN 2 ELSE 1),
                         Insert(buffer[Len(buffer)])>>
    /\ (DiacriticAttempt /\ prev = <<CP.a>> /\ PressedChar = TRIGGER_CIRCUMFLEX)
           => /\ buffer = <<CP.a_circ>>
              /\ actions = <<Backspace(2), Insert(CP.a_circ)>>

\* The circumflex trigger was pressed on the buffer a and rewrote it.
C12_Witness ==
    /\ DiacriticAttempt
    /\ PressedChar = TRIGGER_CIRCUMFLEX
    /\ prev = <<CP.a>>
    /\ buffer = <<CP.a_circ>>
    /\ actions = <<Backspace(2), Insert(CP.a_circ)>>

\* The positions of acts that hold a Backspace: where a group of operations
\* begins.  GroupEnd is the position where the group beginning at j ends.
GroupStarts(acts) == {j \in 1..Len(acts) : acts[j].op = "Backspace"}

GroupEnd(acts, j) ==
    IF \E l \in GroupStarts(acts) : l > j
    THEN SetMin({l \in GroupStarts(acts) : l > j}) - 1
    ELSE Len(acts)

\* The buffer position the group beginning at j rewrites, read from the
\* amount its Backspace deletes: buf_len - index, one more in the first
\* group of a call.
GroupIndex(acts, j, buf_len) ==
    buf_len - acts[j].n + (IF j = 1 THEN 1 ELSE 0)

\* C13: edit synthesis shape.  Every group of operations a trigger press
\* returns rewrites one position index < L of the buffer of length L as it
\* was before the press: it is Backspace(L - index), or
\* Backspace(L - index + 1) in the first group, then Insert of the new
\* character at index, then one Insert per character after index, in order
\* and unchanged: 1 + (L - index) operations.  The synthesis leaves the
\* buffer alone: positions no group rewrites keep their character.
C13_EditShape ==
    (PrintablePressed /\ actions # <<>>)
        => /\ 1 \in GroupStarts(actions)
           /\ \A j \in GroupStarts(actions) :
                  /\ GroupIndex(actions, j, Len(prev)) \in 0..(Len(prev) - 1)
                  /\ GroupEnd(actions, j) - j + 1
                         = 1 + (Len(prev) - GroupIndex(actions, j, Len(prev)))
                  /\ SubSeq(actions, j, GroupEnd(actions, j))
                         = EditShape(prev, GroupIndex(actions, j, Len(prev)),
                                     actions[j + 1].ch, j = 1)
                  /\ to_ascii_lowercase(clean_char(actions[j + 1].ch))
                         = to_ascii_lowercase(clean_char(
                               prev[GroupIndex(actions, j, Len(prev)) + 1]))
           /\ Len(buffer) = Len(prev)
           /\ \A p \in 1..Len(prev) :
                  (\A j \in GroupStarts(actions) :
                       GroupIndex(actions, j, Len(prev)) + 1 # p)
                      => buffer[p] = prev[p]

\* The horn trigger was pressed on u, o, i: a first group at position 0 and
\* a later group at position 1, each with the characters after it.
C13_Witness ==
    /\ DiacriticAttempt
    /\ prev = <<CP.u, CP.o, CP.i>>
    /\ actions = <<Backspace(4), Insert(CP.u_horn), Insert(CP.o), Insert(CP.i),
                   Backspace(2), Insert(CP.o_horn), Insert(CP.i)>>

\* The positions of buf that satisfy a rule of trigger digit trig: the base
\* letter of the rule is the character's, and the position is the last or
\* the next character is one the rule pairs with.
MatchedPositions(buf, trig) ==
    {i \in 0..(Len(buf) - 1) :
        \E j \in 1..Len(MatchesOf(trig)) :
            /\ MatchesOf(trig)[j].ch = to_ascii_lowercase(clean_char(buf[i + 1]))
            /\ \/ i + 1 = Len(buf)
               \/ to_ascii_lowercase(clean_char(buf[i + 2]))
                      \in MatchesOf(trig)[j].pair_with}

\* The buffer of the call when the group for position i is synthesized: the
\* matched positions before i already rewritten, the others as they were.
BufferAt(i) ==
    [p \in 1..Len(prev) |->
        IF p - 1 < i /\ p - 1 \in MatchedPositions(prev, PressedChar)
        THEN buffer[p]
        ELSE prev[p]]

\* C14 (as claimed): several matches in one diacritic call.  Every
\* position that satisfies a rule (its base letter is the rule's and it is
\* the last position or its follower, stripped of marks and case-folded, is
\* one the rule pairs with) is rewritten in the same call, and only those;
\* the operations are one group per matched position, in left-to-right
\* order; only the first group's Backspace counts the trigger character;
\* each group's Inserts after the new character are the characters of the
\* buffer as rewritten so far; and the groups applied in that order to the
\* old buffer followed by the digit give the new buffer.
C14_MultiMatch ==
    DiacriticAttempt
        => /\ ~panicked
           /\ Cardinality(GroupStarts(actions))
                  = Cardinality(MatchedPositions(prev, PressedChar))
           /\ {GroupIndex(actions, j, Len(prev)) : j \in GroupStarts(actions)}
                  = MatchedPositions(prev, PressedChar)
           /\ \A j, l \in GroupStarts(actions) :
                  j < l => GroupIndex(actions, j, Len(prev))
                               < GroupIndex(actions, l, Len(prev))
           /\ \A j \in GroupStarts(actions) :
                  SubSeq(actions, j, GroupEnd(actions, j))
                      = EditShape(BufferAt(GroupIndex(actions, j, Len(prev))),
                                  GroupIndex(actions, j, Len(prev)),
                                  buffer[GroupIndex(actions, j, Len(prev)) + 1],
                                  j = 1)
           /\ actions # <<>> =>
                  /\ Len(buffer) = Len(prev)
                  /\ \A p \in 1..Len(prev) :
                         IF p - 1 \in MatchedPositions(prev, PressedChar)
                         THEN buffer[p] \in
                                  UNION {{MatchesOf(PressedChar)[j].replace_with[1],
                                          MatchesOf(PressedChar)[j].replace_with[2]} :
                                         j \in 1..Len(MatchesOf(PressedChar))}
                         ELSE buffer[p] = prev[p]
                  /\ ApplyActions(Append(prev, PressedChar), actions) = buffer

\* ch is an uppercase letter, plain or shape-marked.
IsUpper(ch) == is_ascii_uppercase(clean_char(ch))

\* C15 (as claimed): case preservation in diacritic rewrites.  After a
\* diacritic trigger has rewritten the buffer, every position holds an
\* uppercase letter exactly when it held one before, also when the
\* character rewritten was already a shape-marked letter.
C15_CasePreserved ==
    (DiacriticPressed /\ actions # <<>>)
        => /\ Len(buffer) = Len(prev)
           /\ \A p \in 1..Len(prev) : IsUpper(buffer[p]) = IsUpper(prev[p])

SetMax(S) == CHOOSE x \in S : \A y \in S : x >= y

\* The positions of buf that hold a circumflex, breve or horn-marked vowel
\* other than the horned o, once the tone mark is taken off.
MarkedPositions(buf) ==
    {j \in 0..(Len(buf) - 1) :
        remove_accents(buf[j + 1]) \in
            { CP.e_circ, CP.a_circ, CP.o_circ, CP.a_breve, CP.u_horn,
              CP.E_circ, CP.A_circ, CP.O_circ, CP.A_breve, CP.U_horn }}

\* C16 (as claimed): marked-vowel precedence.  Whenever the buffer holds no
\* horned o but a circumflex, breve or horn-marked vowel, the vowel selector
\* returns the position of the last such vowel, whatever cluster, 'g','i'
\* prefix or plain vowel the buffer also holds.
C16_MarkedVowelLast ==
    (HornOPositions(buffer) = {} /\ MarkedPositions(buffer) # {})
        => /\ get_vowel_for_accent(buffer).some
           /\ get_vowel_for_accent(buffer).index
                  = SetMax(MarkedPositions(buffer))

\* The rank of a plain vowel, whatever its case.
Rank(ch) ==
    CASE to_ascii_lowercase(ch) = CP.a -> 5
      [] to_ascii_lowercase(ch) = CP.e -> 4
      [] to_ascii_lowercase(ch) = CP.i -> 3
      [] to_ascii_lowercase(ch) = CP.o -> 2
      [] to_ascii_lowercase(ch) = CP.u -> 1
      [] to_ascii_lowercase(ch) = CP.y -> 0

\* The positions of buf that hold a plain vowel.
PlainVowelPositions(buf) ==
    {j \in 0..(Len(buf) - 1) :
        to_ascii_lowercase(buf[j + 1]) \in {CP.a, CP.e, CP.i, CP.o, CP.u, CP.y}}

\* The earliest position among the plain vowels of the highest rank.
BestPlainVowel(buf) ==
    CHOOSE j \in PlainVowelPositions(buf) :
        \A l \in PlainVowelPositions(buf) :
            \/ Rank(buf[l + 1]) < Rank(buf[j + 1])
            \/ Rank(buf[l + 1]) = Rank(buf[j + 1]) /\ l >= j

\* buf holds no marked vowel, no 'o' + a/e/o/y cluster and no 'g','i' prefix
\* with a third character.
PlainCase(buf) ==
    /\ HornOPositions(buf) = {}
    /\ MarkedPositions(buf) = {}
    /\ ClusterOPositions(buf) = {}
    /\ GiPrefixPositions(buf) = {}

\* C17: plain-vowel ranking.  On a buffer with no marked vowel, no cluster
\* and no 'g','i' prefix the vowel selector returns the plain vowel of the
\* highest rank (a 5, e 4, i 3, o 2, u 1, y 0, either case), the earliest
\* among equal ranks, and none exactly when the buffer holds no vowel; a
\* tone trigger then rewrites that position, or, when there is none, returns
\* no operations and is appended as a literal.
C17_PlainRanking ==
    /\ PlainCase(buffer) =>
           IF PlainVowelPositions(buffer) = {}
           THEN ~get_vowel_for_accent(buffer).some
           ELSE /\ get_vowel_for_accent(buffer).some
                /\ get_vowel_for_accent(buffer).index = BestPlainVowel(buffer)
                /\ get_vowel_for_accent(buffer).ch
                       = buffer[BestPlainVowel(buffer) + 1]
    /\ (ToneAttempt /\ PlainCase(prev)) =>
           /\ ~panicked
           /\ IF PlainVowelPositions(prev) = {}
              THEN actions = <<>> /\ buffer = Append(prev, PressedChar)
              ELSE actions =
                       EditShape(prev, BestPlainVowel(prev),
                                 MapGet(ToneMapOf(PressedChar),
                                        prev[BestPlainVowel(prev) + 1]),
                                 TRUE)

\* The acute trigger was pressed on u, a, a: the first of the two a's, which
\* outrank the u, received the tone.
C17_Witness ==
    /\ ToneAttempt
    /\ PressedChar = TRIGGER_ACUTE
    /\ prev = <<CP.u, CP.a, CP.a>>
    /\ actions = <<Backspace(3), Insert(225), Insert(CP.a)>>

\* Every Backspace(n) of acts has 1 <= n <= the number of characters the
\* field holds when it is applied, the field holding cur characters before
\* acts.
RECURSIVE BackspacesInside(_, _)
BackspacesInside(acts, cur) ==
    IF acts = <<>>
    THEN TRUE
    ELSE IF Head(acts).op = "Backspace"
    THEN /\ 1 <= Head(acts).n
         /\ Head(acts).n <= cur
         /\ BackspacesInside(Tail(acts), cur - Head(acts).n)
    ELSE BackspacesInside(Tail(acts), cur + 1)

\* C18: deletion stays inside the composition.  After every key event the
\* host field holds as many characters of the composition as the buffer
\* holds; so when a press returns operations the field held the old buffer's
\* length plus the typed character, and every Backspace(n) of them has
\* 1 <= n <= the number of characters the field holds at that moment.
C18_DeletionInside ==
    /\ ~panicked => Len(field) = Len(buffer)
    /\ (PrintablePressed /\ actions # <<>>)
           => BackspacesInside(actions, Len(prev) + 1)

\* The horn trigger was pressed on u, o: the first Backspace deletes the
\* whole composition and the digit, and the field ends with two characters.
C18_Witness ==
    /\ DiacriticPressed
    /\ prev = <<CP.u, CP.o>>
    /\ actions[1] = Backspace(3)
    /\ Len(actions) = 5
    /\ field = <<CP.u_horn, CP.o_horn>>

\* buf with every letter upper-cased.
UpperCased(buf) == [j \in 1..Len(buf) |-> to_ascii_uppercase(buf[j])]

\* buf holds plain letters only.
PlainLetters(buf) ==
    \A j \in 1..Len(buf) : to_ascii_lowercase(buf[j]) \in 97..122

\* C19 (as claimed): tone placement is case-insensitive.  For every buffer
\* of letters the vowel selector returns the same position (or none) for the
\* buffer and for the buffer with every letter upper-cased.
C19_CaseInsensitive ==
    PlainLetters(buffer)
        => /\ get_vowel_for_accent(buffer).some
                  = get_vowel_for_accent(UpperCased(buffer)).some
           /\ get_vowel_for_accent(buffer).index
                  = get_vowel_for_accent(UpperCased(buffer)).index

====
